---- MODULE Spec2Model ----
(***************************************************************************)
(* Retirement and insurance simulator: the numeric core of                 *)
(* pages/retirement.py and pages/insurance.py.                             *)
(*                                                                         *)
(* The Python code computes on IEEE-754 binary64 floats.  The model keeps  *)
(* that arithmetic: a float is a record [m, e] of value m * 2^e, with m a  *)
(* 53-bit mantissa (2^52 <= m < 2^53) or zero, and every operation rounds  *)
(* to nearest, ties to even, as the hardware does.  Mantissas are wider    *)
(* than TLC's integers, so m is a tuple of NLimbs limbs of LimbBits bits,  *)
(* least significant first.  Only non-negative floats occur: the code      *)
(* tests a balance for "< 0" right after the one subtraction it makes,     *)
(* which is the comparison of its two operands.                            *)
(***************************************************************************)
EXTENDS Integers, Sequences, FiniteSets, TLC

----------------------------------------------------------------------------
(* Wide naturals: NLimbs limbs, base 2^LimbBits.                           *)

\* the powers of two up to the limb base 2^14
Pow2Tab == <<1, 2, 4, 8, 16, 32, 64, 128, 256, 512, 1024, 2048, 4096, 8192, 16384>>

\* eight limbs hold the 106-bit product of two mantissas
WZero == <<0, 0, 0, 0, 0, 0, 0, 0>>

LimbBits == Len(Pow2Tab) - 1
NLimbs == Len(WZero)
MantBits == 53

Pow2(k) == Pow2Tab[k + 1]

Base == Pow2(LimbBits)

Limb(w, i) == IF i >= 1 /\ i <= NLimbs THEN w[i] ELSE 0

IsWZero(w) == w = WZero

\* bit length of one limb (0 for 0)
LimbLen(x) ==
    IF x >= 128
    THEN IF x >= 2048
         THEN IF x >= 8192 THEN 14 ELSE IF x >= 4096 THEN 13 ELSE 12
         ELSE IF x >= 512 THEN (IF x >= 1024 THEN 11 ELSE 10)
              ELSE IF x >= 256 THEN 9 ELSE 8
    ELSE IF x >= 8
         THEN IF x >= 32 THEN (IF x >= 64 THEN 7 ELSE 6)
              ELSE IF x >= 16 THEN 5 ELSE 4
         ELSE IF x >= 2 THEN (IF x >= 4 THEN 3 ELSE 2)
              ELSE IF x >= 1 THEN 1 ELSE 0

\* the highest non-zero limb (0 for 0)
TopLimb(w) ==
    IF w[8] # 0 THEN 8 ELSE IF w[7] # 0 THEN 7 ELSE IF w[6] # 0 THEN 6
    ELSE IF w[5] # 0 THEN 5 ELSE IF w[4] # 0 THEN 4 ELSE IF w[3] # 0 THEN 3
    ELSE IF w[2] # 0 THEN 2 ELSE IF w[1] # 0 THEN 1 ELSE 0

BitLen(w) == IF IsWZero(w) THEN 0
             ELSE LimbBits * (TopLimb(w) - 1) + LimbLen(w[TopLimb(w)])

\* limb i of w shifted right by k limbs and b bits, p = 2^b, q = 2^(LimbBits - b)
ShrLimb(w, k, p, q, i) ==
    (Limb(w, i + k) \div p) + (Limb(w, i + k + 1) % p) * q

\* w shifted right by k limbs and b bits, p = 2^b, q = 2^(LimbBits - b)
ShrBy(w, k, p, q) ==
    <<ShrLimb(w, k, p, q, 1), ShrLimb(w, k, p, q, 2), ShrLimb(w, k, p, q, 3),
      ShrLimb(w, k, p, q, 4), ShrLimb(w, k, p, q, 5), ShrLimb(w, k, p, q, 6),
      ShrLimb(w, k, p, q, 7), ShrLimb(w, k, p, q, 8)>>

\* w shifted right by s bits (floor)
Shr(w, s) ==
    ShrBy(w, s \div LimbBits, Pow2(s % LimbBits), Pow2(LimbBits - (s % LimbBits)))

\* limb i of w shifted left by k limbs and b bits, p = 2^b, q = 2^(LimbBits - b)
ShlLimb(w, k, p, q, i) ==
    (Limb(w, i - k) % q) * p + (Limb(w, i - k - 1) \div q)

\* w shifted left by k limbs and b bits, p = 2^b, q = 2^(LimbBits - b)
ShlBy(w, k, p, q) ==
    <<ShlLimb(w, k, p, q, 1), ShlLimb(w, k, p, q, 2), ShlLimb(w, k, p, q, 3),
      ShlLimb(w, k, p, q, 4), ShlLimb(w, k, p, q, 5), ShlLimb(w, k, p, q, 6),
      ShlLimb(w, k, p, q, 7), ShlLimb(w, k, p, q, 8)>>

\* w shifted left by s bits (the caller keeps the result within NLimbs limbs)
Shl(w, s) ==
    ShlBy(w, s \div LimbBits, Pow2(s % LimbBits), Pow2(LimbBits - (s % LimbBits)))

\* bit j (0 = least significant) of w
Bit(w, j) == (Limb(w, (j \div LimbBits) + 1) \div Pow2(j % LimbBits)) % 2

\* whether the s lowest bits of w are all zero
LowZero(w, s) ==
    /\ \A i \in 1..(s \div LimbBits) : w[i] = 0
    /\ Limb(w, (s \div LimbBits) + 1) % Pow2(s % LimbBits) = 0

\* a + b, the carry running up the limbs
WAdd(a, b) ==
    LET s1 == a[1] + b[1]
        s2 == a[2] + b[2] + (s1 \div Base)
        s3 == a[3] + b[3] + (s2 \div Base)
        s4 == a[4] + b[4] + (s3 \div Base)
        s5 == a[5] + b[5] + (s4 \div Base)
        s6 == a[6] + b[6] + (s5 \div Base)
        s7 == a[7] + b[7] + (s6 \div Base)
        s8 == a[8] + b[8] + (s7 \div Base)
    IN <<s1 % Base, s2 % Base, s3 % Base, s4 % Base,
         s5 % Base, s6 % Base, s7 % Base, s8 % Base>>

\* a - b for a >= b, the borrow running up the limbs (\div and % round down)
WSub(a, b) ==
    LET d1 == a[1] - b[1]
        d2 == a[2] - b[2] + (d1 \div Base)
        d3 == a[3] - b[3] + (d2 \div Base)
        d4 == a[4] - b[4] + (d3 \div Base)
        d5 == a[5] - b[5] + (d4 \div Base)
        d6 == a[6] - b[6] + (d5 \div Base)
        d7 == a[7] - b[7] + (d6 \div Base)
        d8 == a[8] - b[8] + (d7 \div Base)
    IN <<d1 % Base, d2 % Base, d3 % Base, d4 % Base,
         d5 % Base, d6 % Base, d7 % Base, d8 % Base>>

\* whether a < b: the highest limb that differs decides
WLess(a, b) ==
    IF a[8] # b[8] THEN a[8] < b[8] ELSE IF a[7] # b[7] THEN a[7] < b[7]
    ELSE IF a[6] # b[6] THEN a[6] < b[6] ELSE IF a[5] # b[5] THEN a[5] < b[5]
    ELSE IF a[4] # b[4] THEN a[4] < b[4] ELSE IF a[3] # b[3] THEN a[3] < b[3]
    ELSE IF a[2] # b[2] THEN a[2] < b[2] ELSE a[1] < b[1]

\* product of two mantissas (each below 2^56): the columns with their carries
WMul(a, b) ==
    LET c0 == a[1] * b[1]
        c1 == a[1] * b[2] + a[2] * b[1] + (c0 \div Base)
        c2 == a[1] * b[3] + a[2] * b[2] + a[3] * b[1] + (c1 \div Base)
        c3 == a[1] * b[4] + a[2] * b[3] + a[3] * b[2] + a[4] * b[1] + (c2 \div Base)
        c4 == a[2] * b[4] + a[3] * b[3] + a[4] * b[2] + (c3 \div Base)
        c5 == a[3] * b[4] + a[4] * b[3] + (c4 \div Base)
        c6 == a[4] * b[4] + (c5 \div Base)
        c7 == c6 \div Base
    IN <<c0 % Base, c1 % Base, c2 % Base, c3 % Base,
         c4 % Base, c5 % Base, c6 % Base, c7>>

\* a natural below 2^31 as a wide natural
WFromInt(n) == <<n % Base, (n \div Base) % Base, n \div (Base * Base), 0, 0, 0, 0, 0>>

\* a wide natural below 2^31 as an integer
WToInt(w) == w[1] + Base * w[2] + Base * Base * w[3]

\* Python's min and max of two integers
Min(a, b) == IF b < a THEN b ELSE a

Max(a, b) == IF b > a THEN b ELSE a

----------------------------------------------------------------------------
(* binary64 floats, non-negative, round to nearest even.                   *)

FZero == [m |-> WZero, e |-> 0]

IsFZero(x) == IsWZero(x.m)

\* the float nearest to w * 2^e
Round(w, e) ==
    LET bl == BitLen(w) IN
    IF bl = 0 THEN FZero
    ELSE IF bl <= MantBits THEN [m |-> Shl(w, MantBits - bl), e |-> e - (MantBits - bl)]
    ELSE LET s == bl - MantBits
             q == Shr(w, s)
             up == Bit(w, s - 1) = 1 /\ (~LowZero(w, s - 1) \/ Bit(q, 0) = 1)
             q1 == IF up THEN WAdd(q, WFromInt(1)) ELSE q
         IN IF Bit(q1, MantBits) = 1
            THEN [m |-> Shr(q1, 1), e |-> e + s + 1]
            ELSE [m |-> q1, e |-> e + s]

FromInt(n) == Round(WFromInt(n), 0)

FMul(x, y) == Round(WMul(x.m, y.m), x.e + y.e)

\* beyond this exponent gap the smaller operand is below a quarter ulp
MaxAlign == MantBits + 3

FAdd(x, y) ==
    IF IsFZero(x) THEN y
    ELSE IF IsFZero(y) THEN x
    ELSE LET big == IF x.e >= y.e THEN x ELSE y
             sml == IF x.e >= y.e THEN y ELSE x
             d == big.e - sml.e
         IN IF d > MaxAlign THEN big
            ELSE Round(WAdd(Shl(big.m, d), sml.m), sml.e)

FLess(x, y) ==
    IF IsFZero(y) THEN FALSE
    ELSE IF IsFZero(x) THEN TRUE
    ELSE IF x.e # y.e THEN x.e < y.e
    ELSE WLess(x.m, y.m)

FLeq(x, y) == ~FLess(y, x)

\* x - y for x >= y
FSub(x, y) ==
    IF IsFZero(y) THEN x
    ELSE LET d == x.e - y.e
         IN IF d > MaxAlign THEN x
            ELSE Round(WSub(Shl(x.m, d), y.m), y.e)

\* x / 2 (exact: no subnormal is ever reached)
FHalf(x) == IF IsFZero(x) THEN x ELSE [m |-> x.m, e |-> x.e - 1]

FMin(x, y) == IF FLess(y, x) THEN y ELSE x

\* int(x) for 0 <= x < 2^31: truncation toward zero
FTrunc(x) ==
    IF IsFZero(x) \/ -x.e > MantBits THEN 0
    ELSE IF x.e >= 0 THEN WToInt(Shl(x.m, x.e))
    ELSE WToInt(Shr(x.m, -x.e))

\* w \div d for 0 < d < 2^16, by long division from the top limb down, with the
\* remainder: <<quotient, remainder>>
WDivSmall(w, d) ==
    LET t8 == w[8]
        t7 == (t8 % d) * Base + w[7]
        t6 == (t7 % d) * Base + w[6]
        t5 == (t6 % d) * Base + w[5]
        t4 == (t5 % d) * Base + w[4]
        t3 == (t4 % d) * Base + w[3]
        t2 == (t3 % d) * Base + w[2]
        t1 == (t2 % d) * Base + w[1]
    IN << <<t1 \div d, t2 \div d, t3 \div d, t4 \div d,
            t5 \div d, t6 \div d, t7 \div d, t8 \div d>>, t1 % d >>

\* n / 1_000_000 for an integer 0 <= n < 2^31, correctly rounded as Python's
\* true division of integers is.  1_000_000 = 2^6 * 15625: the quotient of
\* n * 2^80 by 15625 keeps at least 64 bits, a remainder is kept as a sticky
\* lowest bit, which rounding to 53 bits reads and drops.
DivMillion(n) ==
    LET qr == WDivSmall(Shl(WFromInt(n), 80), 15625)
        q == qr[1]
        sticky == IF qr[2] # 0 /\ q[1] % 2 = 0 THEN 1 ELSE 0
    IN Round([q EXCEPT ![1] = q[1] + sticky], -86)

\* round(x) for 0 <= x < 2^31: the nearest integer, a tie going to the even one
FRound(x) ==
    IF IsFZero(x) \/ -x.e > MantBits + 1 THEN 0
    ELSE IF x.e >= 0 THEN WToInt(Shl(x.m, x.e))
    ELSE LET s == -x.e
             t == WToInt(Shr(x.m, s))
             up == Bit(x.m, s - 1) = 1 /\ (~LowZero(x.m, s - 1) \/ t % 2 = 1)
         IN IF up THEN t + 1 ELSE t

\* a float literal as the Python reader stores it: the four low limbs of the
\* 53-bit mantissa and the exponent.  Each use below gives the literal and
\* its float.hex() beside the limbs.
Lit(l1, l2, l3, l4, e) == [m |-> <<l1, l2, l3, l4, 0, 0, 0, 0>>, e |-> e]

----------------------------------------------------------------------------
(* pages/retirement.py: constants.                                         *)

\* 1 = 0x1.0000000000000p+0
One == Lit(0, 0, 0, 1024, -52)

\* 12 = 0x1.8000000000000p+3
Twelve == Lit(0, 0, 0, 1536, -49)

\* 0.06 = 0x1.eb851eb851eb8p-5
INFLATION == Lit(7864, 11796, 1310, 1966, -57)

\* 0.05 = 0x1.999999999999ap-5
POST_RET_RETURN == Lit(6554, 9830, 6553, 1638, -57)

\* 0.15 = 0x1.3333333333333p-3
MAX_SIP_GROWTH == Lit(13107, 3276, 13107, 1228, -55)

Assets == <<"Equity", "Debt", "Gold", "Savings">>

\* 0.12 = 0x1.eb851eb851eb8p-4, 0.07 = 0x1.1eb851eb851ecp-4, 0.06 = 0x1.eb851eb851eb8p-5, 0.04 = 0x1.47ae147ae147bp-5
ASSET_RETURNS == [Equity |-> Lit(7864, 11796, 1310, 1966, -56), Debt |-> Lit(4588, 15073, 14417, 1146, -56),
                  Gold |-> Lit(7864, 11796, 1310, 1966, -57), Savings |-> Lit(5243, 7864, 11796, 1310, -57)]

\* the fractions of RISK_ALLOC:
\*   0.05 = 0x1.999999999999ap-5
\*   0.10 = 0x1.999999999999ap-4
\*   0.15 = 0x1.3333333333333p-3
\*   0.20 = 0x1.999999999999ap-3
\*   0.25 = 0x1.0000000000000p-2
\*   0.30 = 0x1.3333333333333p-2
\*   0.35 = 0x1.6666666666666p-2
\*   0.40 = 0x1.999999999999ap-2
\*   0.45 = 0x1.ccccccccccccdp-2
\*   0.50 = 0x1.0000000000000p-1
\*   0.65 = 0x1.4cccccccccccdp-1
\*   0.75 = 0x1.8000000000000p-1
RISK_ALLOC == <<
    [Equity |-> Lit(0, 0, 0, 1024, -54), Debt |-> Lit(3277, 13107, 3276, 1843, -54),
     Gold |-> Lit(6554, 9830, 6553, 1638, -56), Savings |-> Lit(6554, 9830, 6553, 1638, -55)],
    [Equity |-> Lit(9830, 6553, 9830, 1433, -54), Debt |-> Lit(6554, 9830, 6553, 1638, -54),
     Gold |-> Lit(6554, 9830, 6553, 1638, -56), Savings |-> Lit(13107, 3276, 13107, 1228, -55)],
    [Equity |-> Lit(0, 0, 0, 1024, -53), Debt |-> Lit(13107, 3276, 13107, 1228, -54),
     Gold |-> Lit(6554, 9830, 6553, 1638, -56), Savings |-> Lit(6554, 9830, 6553, 1638, -56)],
    [Equity |-> Lit(3277, 13107, 3276, 1331, -53), Debt |-> Lit(6554, 9830, 6553, 1638, -55),
     Gold |-> Lit(6554, 9830, 6553, 1638, -56), Savings |-> Lit(6554, 9830, 6553, 1638, -57)],
    [Equity |-> Lit(0, 0, 0, 1536, -53), Debt |-> Lit(6554, 9830, 6553, 1638, -56),
     Gold |-> Lit(6554, 9830, 6553, 1638, -56), Savings |-> Lit(6554, 9830, 6553, 1638, -57)] >>

\* (1 + INFLATION) ** y as the C library's pow returns it (float.hex):
\*   1.06 ** 0  = 0x1.0000000000000p+0
\*   1.06 ** 1  = 0x1.0f5c28f5c28f6p+0
\*   1.06 ** 2  = 0x1.1fa43fe5c91d2p+0
\*   1.06 ** 3  = 0x1.30e66cb10342bp+0
\*   1.06 ** 4  = 0x1.4331b0a7274bep+0
\*   1.06 ** 5  = 0x1.5695f39276744p+0
\*   1.06 ** 6  = 0x1.6b24118be3f62p+0
\*   1.06 ** 7  = 0x1.80ede9a3a4d6ep+0
\*   1.06 ** 8  = 0x1.98066d6ae70ccp+0
\*   1.06 ** 9  = 0x1.b081b16c325a5p+0
\*   1.06 ** 10 = 0x1.ca74fea0c4bbfp+0
\*   1.06 ** 11 = 0x1.e5f6e4f21837ep+0
\*   1.06 ** 12 = 0x1.018fa76bd4840p+1
\*   1.06 ** 13 = 0x1.1103cb11051b5p+1
\*   1.06 ** 14 = 0x1.21654d02ae5f9p+1
\*   1.06 ** 15 = 0x1.32c26b3b2979cp+1
\*   1.06 ** 16 = 0x1.452a3e77081fdp+1
\*   1.06 ** 17 = 0x1.58acc75536b11p+1
\*   1.06 ** 18 = 0x1.6d5afc40b9f93p+1
\*   1.06 ** 19 = 0x1.8346d830214abp+1
\*   1.06 ** 20 = 0x1.9a836a477f731p+1
\*   1.06 ** 21 = 0x1.b324e66a81fa0p+1
\*   1.06 ** 22 = 0x1.cd40b6cd0ee53p+1
\*   1.06 ** 23 = 0x1.e8ed8e91ae825p+1
\*   1.06 ** 24 = 0x1.0321bec2f8a66p+2
\*   1.06 ** 25 = 0x1.12ae0286fd543p+2
\*   1.06 ** 26 = 0x1.23291728b05e6p+2
\*   1.06 ** 27 = 0x1.34a150de548d0p+2
\*   1.06 ** 28 = 0x1.4725dff5e8fbep+2
\*   1.06 ** 29 = 0x1.5ac6de09c8e21p+2
\*   1.06 ** 30 = 0x1.6f955c0021bc7p+2
\*   1.06 ** 31 = 0x1.85a370e16b70cp+2
\*   1.06 ** 32 = 0x1.9d044992c8ed5p+2
\*   1.06 ** 33 = 0x1.b5cc3981fdf15p+2
\*   1.06 ** 34 = 0x1.d010cc5178b30p+2
\*   1.06 ** 35 = 0x1.ebe8d893ccbddp+2
\*   1.06 ** 36 = 0x1.04b649d374316p+3
\*   1.06 ** 37 = 0x1.145ad360241fep+3
\*   1.06 ** 38 = 0x1.24efa29e3ac5bp+3
\*   1.06 ** 39 = 0x1.368322229a756p+3
\*   1.06 ** 40 = 0x1.492499f17ac42p+3
\*   1.06 ** 41 = 0x1.5ce43cc7a5f8ep+3
\*   1.06 ** 42 = 0x1.71d3362fc987dp+3
\*   1.06 ** 43 = 0x1.8803b970182ecp+3
\*   1.06 ** 44 = 0x1.9f89115d385a8p+3
\*   1.06 ** 45 = 0x1.b877b12040daep+3
InflationPowTab == <<
    [m |-> <<0, 0, 0, 1024, 0, 0, 0, 0>>, e |-> -52],
    [m |-> <<10486, 15728, 7208, 1085, 0, 0, 0, 0>>, e |-> -52],
    [m |-> <<4562, 14706, 9279, 1150, 0, 0, 0, 0>>, e |-> -52],
    [m |-> <<13355, 11328, 9836, 1219, 0, 0, 0, 0>>, e |-> -52],
    [m |-> <<13502, 10697, 12720, 1292, 0, 0, 0, 0>>, e |-> -52],
    [m |-> <<10052, 9373, 5619, 1370, 0, 0, 0, 0>>, e |-> -52],
    [m |-> <<16226, 8952, 9233, 1452, 0, 0, 0, 0>>, e |-> -52],
    [m |-> <<3438, 10473, 11753, 1539, 0, 0, 0, 0>>, e |-> -52],
    [m |-> <<12492, 6841, 1645, 1632, 0, 0, 0, 0>>, e |-> -52],
    [m |-> <<9637, 6924, 433, 1730, 0, 0, 0, 0>>, e |-> -52],
    [m |-> <<3007, 10289, 13566, 1833, 0, 0, 0, 0>>, e |-> -52],
    [m |-> <<894, 15494, 14052, 1943, 0, 0, 0, 0>>, e |-> -52],
    [m |-> <<2112, 6901, 4007, 1030, 0, 0, 0, 0>>, e |-> -51],
    [m |-> <<4533, 1089, 971, 1092, 0, 0, 0, 0>>, e |-> -51],
    [m |-> <<9721, 171, 9549, 1157, 0, 0, 0, 0>>, e |-> -51],
    [m |-> <<6044, 3786, 619, 1227, 0, 0, 0, 0>>, e |-> -51],
    [m |-> <<509, 7618, 10814, 1300, 0, 0, 0, 0>>, e |-> -51],
    [m |-> <<11025, 5453, 11463, 1378, 0, 0, 0, 0>>, e |-> -51],
    [m |-> <<8083, 4142, 6908, 1461, 0, 0, 0, 0>>, e |-> -51],
    [m |-> <<5291, 3080, 1752, 1549, 0, 0, 0, 0>>, e |-> -51],
    [m |-> <<14129, 4575, 874, 1642, 0, 0, 0, 0>>, e |-> -51],
    [m |-> <<8096, 6816, 9446, 1740, 0, 0, 0, 0>>, e |-> -51],
    [m |-> <<11859, 13123, 182, 1845, 0, 0, 0, 0>>, e |-> -51],
    [m |-> <<10277, 9323, 11662, 1955, 0, 0, 0, 0>>, e |-> -51],
    [m |-> <<2662, 12478, 8638, 1036, 0, 0, 0, 0>>, e |-> -50],
    [m |-> <<5443, 8639, 11778, 1098, 0, 0, 0, 0>>, e |-> -50],
    [m |-> <<1510, 2604, 10519, 1164, 0, 0, 0, 0>>, e |-> -50],
    [m |-> <<2256, 14229, 8528, 1234, 0, 0, 0, 0>>, e |-> -50],
    [m |-> <<4030, 15738, 9695, 1308, 0, 0, 0, 0>>, e |-> -50],
    [m |-> <<3617, 626, 1758, 1387, 0, 0, 0, 0>>, e |-> -50],
    [m |-> <<7111, 8, 5468, 1470, 0, 0, 0, 0>>, e |-> -50],
    [m |-> <<14092, 14426, 9072, 1558, 0, 0, 0, 0>>, e |-> -50],
    [m |-> <<3797, 9394, 1097, 1652, 0, 0, 0, 0>>, e |-> -50],
    [m |-> <<7957, 8319, 3129, 1751, 0, 0, 0, 0>>, e |-> -50],
    [m |-> <<2864, 5214, 4300, 1856, 0, 0, 0, 0>>, e |-> -50],
    [m |-> <<3037, 9459, 10456, 1967, 0, 0, 0, 0>>, e |-> -50],
    [m |-> <<790, 13533, 13897, 1042, 0, 0, 0, 0>>, e |-> -49],
    [m |-> <<510, 6153, 6867, 1105, 0, 0, 0, 0>>, e |-> -49],
    [m |-> <<11355, 10126, 12194, 1171, 0, 0, 0, 0>>, e |-> -49],
    [m |-> <<10070, 2214, 802, 1242, 0, 0, 0, 0>>, e |-> -49],
    [m |-> <<11330, 15454, 9369, 1316, 0, 0, 0, 0>>, e |-> -49],
    [m |-> <<8078, 12777, 9276, 1395, 0, 0, 0, 0>>, e |-> -49],
    [m |-> <<6269, 3058, 4918, 1479, 0, 0, 0, 0>>, e |-> -49],
    [m |-> <<748, 7174, 953, 1568, 0, 0, 0, 0>>, e |-> -49],
    [m |-> <<1448, 5966, 2321, 1662, 0, 0, 0, 0>>, e |-> -49],
    [m |-> <<3502, 2064, 14257, 1761, 0, 0, 0, 0>>, e |-> -49] >>

\* (1 + INFLATION) ** years_to_ret
InflationPow(y) == InflationPowTab[y + 1]

\* the upper end 1e11 of the corpus search; 1e11 = 0x1.74876e8000000p+36
CorpusHi == Lit(0, 8192, 1902, 1490, -16)

\* the upper end 300_000 of the SIP search
SipHi == 300000

\* the iteration counts of the three bisections
CorpusIters == 100
SipIters == 100
OvershootIters == 60

----------------------------------------------------------------------------
(* The corpus engines' simulation.                                         *)

\* annual_at_ret = monthly_expense_today * 12 * ((1 + INFLATION) ** years_to_ret);
\* the integer product e * 12 is exact, and so is the float product of e and 12
AnnualAtRet(monthly_expense_today, years_to_ret) ==
    FMul(FMul(FromInt(monthly_expense_today), Twelve), InflationPow(years_to_ret))

RECURSIVE Iterate(_, _, _)
\* `for _ in range(k)`: Body applied k times to the loop state x.  The count is
\* split in halves and each half's result is bound before the next starts, so
\* every loop state is computed once.
Iterate(Body(_), x, k) ==
    IF k <= 0 THEN x
    ELSE IF k = 1 THEN Body(x)
    ELSE CHOOSE r \in {Iterate(Body, y, k - (k \div 2)) :
                          y \in {Iterate(Body, x, k \div 2)}} : TRUE

\* one year of survives(C) of required_corpus_fd over <<C, surviving so far>>:
\* `C = C + C * POST_RET_RETURN - annual_at_ret`, then `if C < 0: return False`;
\* after the return no year changes anything
FdYear(s, annual_at_ret) ==
    IF ~s[2] THEN s
    ELSE LET t == FAdd(s[1], FMul(s[1], POST_RET_RETURN))
         IN IF FLess(t, annual_at_ret) THEN <<s[1], FALSE>>
            ELSE <<FSub(t, annual_at_ret), TRUE>>

\* survives(C) of required_corpus_fd over n years
SurvivesFd(C, a, n) == Iterate(LAMBDA s : FdYear(s, a), <<C, TRUE>>, n)[2]

\* one year of survives(C) of required_corpus_inflation over
\* <<C, E, surviving so far>>: `C = C * (1 + POST_RET_RETURN) - E`, then
\* `if C < 0: return False`, then `E *= (1 + INFLATION)`
\* with growth = 1 + POST_RET_RETURN and inflation = 1 + INFLATION
InflYear(s, growth, inflation) ==
    IF ~s[3] THEN s
    ELSE LET t == FMul(s[1], growth)
         IN IF FLess(t, s[2]) THEN <<s[1], s[2], FALSE>>
            ELSE <<FSub(t, s[2]), FMul(s[2], inflation), TRUE>>

\* survives(C) of required_corpus_inflation over n years, E the first
\* withdrawal; the two sums 1 + POST_RET_RETURN and 1 + INFLATION are the same
\* floats every year and are taken once
SurvivesInfl(C, E, n) ==
    CHOOSE alive \in {Iterate(LAMBDA s : InflYear(s, growth, inflation),
                              <<C, E, TRUE>>, n)[3] :
                         growth \in {FAdd(One, POST_RET_RETURN)},
                         inflation \in {FAdd(One, INFLATION)}} : TRUE

----------------------------------------------------------------------------
(* The SIP engines' simulations.                                           *)

\* sum(RISK_ALLOC[risk][a] * ASSET_RETURNS[a] for a in ASSET_RETURNS): the sum
\* starts from 0 and adds the products in the order of ASSET_RETURNS
portfolio_return(risk) ==
    LET p(a) == FMul(RISK_ALLOC[risk][a], ASSET_RETURNS[a])
    IN FAdd(FAdd(FAdd(FAdd(FZero, p("Equity")), p("Debt")), p("Gold")), p("Savings"))

\* `for _ in range(years): C = C * (1 + annual_return) + 12 * mid`; the sum
\* 1 + annual_return and the product 12 * mid are the same floats every year
\* and are taken once
SipBalance(C, years, annual_return, mid) ==
    CHOOSE balance \in {Iterate(LAMBDA c : FAdd(FMul(c, growth), yearly), C, years) :
                           growth \in {FAdd(One, annual_return)},
                           yearly \in {FMul(Twelve, mid)}} : TRUE

\* the savings counted on the side of the target instead of the start
SipReachesSavingsOwed(mid, required_corpus, current_savings, years, annual_return) ==
    FLeq(FAdd(required_corpus, FromInt(current_savings)),
         SipBalance(FZero, years, annual_return, mid))

\* the test `C >= required_corpus` of required_monthly_sip at contribution mid
SipReaches(mid, required_corpus, current_savings, years, annual_return) ==
    FLeq(required_corpus, SipBalance(FromInt(current_savings), years, annual_return, mid))

OVERSHOOT_FACTOR == Lit(6554, 9830, 6553, 1126, -52)

\* `for _ in range(years): sip = min(sip * (1 + stepup), cap)`; the sum
\* 1 + stepup and the cap are the same floats every year and are taken once
StepUp(sip, years, stepup, cap) ==
    CHOOSE last \in {Iterate(LAMBDA x : FMin(FMul(x, growth), ceiling), sip, years) :
                        growth \in {FAdd(One, stepup)}, ceiling \in {cap}} : TRUE

\* the test `sip >= required_sip * overshoot_factor` of min_start_sip_for_overshoot
ReachesCeiling(start, required_sip, years, stepup) ==
    LET cap == FMul(FromInt(required_sip), OVERSHOOT_FACTOR)
    IN FLeq(cap, StepUp(start, years, stepup, cap))

----------------------------------------------------------------------------
(* The loops.                                                              *)

\* the number of quotient bits a float division develops below the leading one
DivBits == MantBits + 3

\* one step of binary long division by d over <<remainder, quotient>>
DivStep(rq, d) ==
    LET r2 == WAdd(rq[1], rq[1])
        q2 == WAdd(rq[2], rq[2])
    IN IF WLess(r2, d) THEN <<r2, q2>>
       ELSE <<WSub(r2, d), WAdd(q2, WFromInt(1))>>

\* x / y for y # 0: the quotient of the mantissas developed to DivBits bits
\* past the leading one, a remainder kept as a sticky lowest bit, then rounded
FDiv(x, y) ==
    IF IsFZero(x) THEN FZero
    ELSE LET first == IF WLess(x.m, y.m) THEN <<x.m, WZero>>
                      ELSE <<WSub(x.m, y.m), WFromInt(1)>>
             rq == Iterate(LAMBDA s : DivStep(s, y.m), first, DivBits)
             q == rq[2]
             sticky == IF ~IsWZero(rq[1]) /\ q[1] % 2 = 0 THEN 1 ELSE 0
         IN Round([q EXCEPT ![1] = q[1] + sticky], x.e - y.e - DivBits)

\* mid = (lo + hi) / 2
Mid(lh) == FHalf(FAdd(lh[1], lh[2]))

\* one pass of a bisection loop over the state <<lo, hi>>
BisectStep(lh, ok) == IF ok THEN <<lh[1], Mid(lh)>> ELSE <<Mid(lh), lh[2]>>

\* <<lo, hi>> as the loop of required_corpus_fd leaves them
BisectFd(annual_at_ret, retirement_years) ==
    Iterate(LAMBDA lh : BisectStep(lh, SurvivesFd(Mid(lh), annual_at_ret,
                                                  retirement_years)),
            <<FZero, CorpusHi>>, CorpusIters)

\* <<lo, hi>> as the loop of required_corpus_inflation leaves them
BisectInfl(annual_at_ret, retirement_years) ==
    Iterate(LAMBDA lh : BisectStep(lh, SurvivesInfl(Mid(lh), annual_at_ret,
                                                    retirement_years)),
            <<FZero, CorpusHi>>, CorpusIters)

required_corpus_fd(monthly_expense_today, years_to_ret, retirement_years) ==
    CHOOSE hi \in {BisectFd(annual_at_ret, retirement_years)[2] :
                      annual_at_ret \in {AnnualAtRet(monthly_expense_today,
                                                     years_to_ret)}} : TRUE

required_corpus_inflation(monthly_expense_today, years_to_ret, retirement_years) ==
    CHOOSE hi \in {BisectInfl(annual_at_ret, retirement_years)[2] :
                      annual_at_ret \in {AnnualAtRet(monthly_expense_today,
                                                     years_to_ret)}} : TRUE

\* <<lo, hi>> as the loop of required_monthly_sip leaves them
BisectSip(required_corpus, current_savings, years, annual_return) ==
    Iterate(LAMBDA lh : BisectStep(lh, SipReaches(Mid(lh), required_corpus,
                                                  current_savings, years, annual_return)),
            <<FZero, FromInt(SipHi)>>, SipIters)

required_monthly_sip(required_corpus, current_savings, years, annual_return) ==
    FTrunc(BisectSip(required_corpus, current_savings, years, annual_return)[2])

\* <<lo, hi>> as the loop of min_start_sip_for_overshoot leaves them
BisectOvershoot(required_sip, years, stepup) ==
    Iterate(LAMBDA lh : BisectStep(lh, ReachesCeiling(Mid(lh), required_sip, years,
                                                      stepup)),
            <<FZero, FromInt(required_sip)>>, OvershootIters)

min_start_sip_for_overshoot(required_sip, years, stepup) ==
    FTrunc(BisectOvershoot(required_sip, years, stepup)[2])

----------------------------------------------------------------------------
(* Risk blending, catch-up path, allocation.                               *)

\* system_risk_level: the horizon gives the base level, being behind raises it
system_risk_level(current_age, retirement_age, is_behind) ==
    LET years == retirement_age - current_age
        base == IF years > 25 THEN 4 ELSE IF years > 15 THEN 3 ELSE 2
    IN IF is_behind THEN Min(5, base + 1) ELSE base

\* 0.6 = 0x1.3333333333333p-1
UserWeight == Lit(13107, 3276, 13107, 1228, -53)

\* 0.4 = 0x1.999999999999ap-2
SystemWeight == Lit(6554, 9830, 6553, 1638, -54)

\* the two weights exchanged
BlendedRiskSwapped(user_risk, system_risk) ==
    Max(1, Min(5, FRound(FAdd(FMul(SystemWeight, FromInt(user_risk)),
                              FMul(UserWeight, FromInt(system_risk))))))

\* max(1, min(5, round(0.6 * user_risk + 0.4 * system_risk)))
blended_risk(user_risk, system_risk) ==
    Max(1, Min(5, FRound(FAdd(FMul(UserWeight, FromInt(user_risk)),
                              FMul(SystemWeight, FromInt(system_risk))))))

\* 1.10 = 0x1.199999999999ap+0, the factor of the cap of the catch-up path
CATCHUP_FACTOR == Lit(6554, 9830, 6553, 1126, -52)

RECURSIVE CatchupPathUncapped(_, _, _)
\* the path stepping up every year without the cap
CatchupPathUncapped(sip, cap, years) ==
    IF years <= 0 THEN <<>>
    ELSE <<FTrunc(sip)>> \o CatchupPathUncapped(FMul(sip, FAdd(One, MAX_SIP_GROWTH)),
                                                cap, years - 1)

RECURSIVE CatchupPath(_, _, _)
\* `for _ in years: catchup.append(int(sip)); sip = min(sip * (1 + MAX_SIP_GROWTH), cap)`
CatchupPath(sip, cap, years) ==
    IF years <= 0 THEN <<>>
    ELSE <<FTrunc(sip)>> \o CatchupPath(FMin(FMul(sip, FAdd(One, MAX_SIP_GROWTH)), cap),
                                        cap, years - 1)

\* the amounts of a year in place of those of a month
YearlyAmounts(required_sip, final_risk) ==
    [i \in 1..Len(Assets) |->
        FMul(FMul(Twelve, FromInt(required_sip)), RISK_ALLOC[final_risk][Assets[i]])]

\* [required_sip * v for v in alloc.values()], in the order of the row's keys
MonthlyAmounts(required_sip, final_risk) ==
    [i \in 1..Len(Assets) |-> FMul(FromInt(required_sip), RISK_ALLOC[final_risk][Assets[i]])]

----------------------------------------------------------------------------
(* pages/insurance.py.  Every amount is an integer: the number inputs of   *)
(* the page have integer bounds and steps.                                 *)

\* the top tier starting one dependent late
LifeCoverLateTier(inputs) ==
    LET multiplier == IF inputs.dependents > 3 THEN 15
                      ELSE IF inputs.dependents >= 1 THEN 12
                      ELSE 10
    IN inputs.annual_income * multiplier

calculate_required_life_cover(inputs) ==
    LET multiplier == IF inputs.dependents >= 3 THEN 15
                      ELSE IF inputs.dependents >= 1 THEN 12
                      ELSE 10
    IN inputs.annual_income * multiplier

\* Optional[List[str]]: None is the empty tuple, a list l the one-element
\* tuple <<l>>, l a sequence of strings
None == <<>>

Some(l) == <<l>>

\* `x or []`: None and the empty list are falsy and give [], any other list
\* gives itself
OrEmpty(x) == IF x = None \/ x[1] = <<>> THEN <<>> ELSE x[1]

\* `r in lifestyle`
In(r, lifestyle) == \E i \in DOMAIN lifestyle : lifestyle[i] = r

\* the lifestyle risks taken as alternatives: only the first one found counts
HealthCoverFirstRiskOnly(inputs) ==
    LET age == inputs.age
        dependents == inputs.dependents
        city_tier == inputs.city_tier
        lifestyle == OrEmpty(inputs.lifestyle_risks)
        base_cover == IF age < 30 THEN 1000000
                      ELSE IF age <= 45 THEN 1500000
                      ELSE 2500000
        family == IF dependents >= 2 THEN 500000 ELSE 0
        city == IF city_tier = "Tier_1" THEN 500000
                ELSE IF city_tier = "Tier_2" THEN 250000
                ELSE 0
        risk == IF In("smoking", lifestyle) THEN 500000
                ELSE IF In("sedentary", lifestyle) THEN 250000
                ELSE IF In("high_stress", lifestyle) THEN 250000
                ELSE 0
    IN base_cover + family + city + risk

calculate_required_health_cover(inputs) ==
    LET age == inputs.age
        dependents == inputs.dependents
        city_tier == inputs.city_tier
        lifestyle == OrEmpty(inputs.lifestyle_risks)
        base_cover == IF age < 30 THEN 1000000
                      ELSE IF age <= 45 THEN 1500000
                      ELSE 2500000
        family == IF dependents >= 2 THEN 500000 ELSE 0
        city == IF city_tier = "Tier_1" THEN 500000
                ELSE IF city_tier = "Tier_2" THEN 250000
                ELSE 0
        smoking == IF In("smoking", lifestyle) THEN 500000 ELSE 0
        sedentary == IF In("sedentary", lifestyle) THEN 250000 ELSE 0
        high_stress == IF In("high_stress", lifestyle) THEN 250000 ELSE 0
    IN base_cover + family + city + smoking + sedentary + high_stress

\* the gap without its floor at zero
GapUnfloored(inputs) ==
    LET required_life == calculate_required_life_cover(inputs)
        required_health == calculate_required_health_cover(inputs)
        life_gap == required_life - inputs.existing_life_cover
        health_gap == required_health - inputs.existing_health_cover
    IN [required_life |-> required_life,
        required_health |-> required_health,
        life_gap |-> life_gap,
        health_gap |-> health_gap,
        life_status |-> IF life_gap = 0 THEN "Adequate" ELSE "Underinsured",
        health_status |-> IF health_gap = 0 THEN "Adequate" ELSE "Underinsured"]

calculate_insurance_gap(inputs) ==
    LET required_life == calculate_required_life_cover(inputs)
        required_health == calculate_required_health_cover(inputs)
        life_gap == Max(0, required_life - inputs.existing_life_cover)
        health_gap == Max(0, required_health - inputs.existing_health_cover)
    IN [required_life |-> required_life,
        required_health |-> required_health,
        life_gap |-> life_gap,
        health_gap |-> health_gap,
        life_status |-> IF life_gap = 0 THEN "Adequate" ELSE "Underinsured",
        health_status |-> IF health_gap = 0 THEN "Adequate" ELSE "Underinsured"]

\* <<low, high>>: the gap in millions times the rate of the age band, rounded
estimate_life_premium(life_gap, age) ==
    IF life_gap <= 0 THEN <<0, 0>>
    ELSE LET units == DivMillion(life_gap)
             rate == IF age < 30 THEN <<500, 800>>
                     ELSE IF age <= 45 THEN <<800, 1200>>
                     ELSE <<1500, 2500>>
         IN <<FRound(FMul(units, FromInt(rate[1]))), FRound(FMul(units, FromInt(rate[2])))>>

estimate_health_premium(health_gap, age) ==
    IF health_gap <= 0 THEN <<0, 0>>
    ELSE LET units == DivMillion(health_gap)
             rate == IF age < 30 THEN <<6000, 8000>>
                     ELSE IF age <= 45 THEN <<8000, 12000>>
                     ELSE <<15000, 25000>>
         IN <<FRound(FMul(units, FromInt(rate[1]))), FRound(FMul(units, FromInt(rate[2])))>>

----------------------------------------------------------------------------
(* State.  Both pages are Streamlit scripts: the widgets hold the inputs,  *)
(* and a press of the page's button runs its calculation on them.  inp is  *)
(* the record of widget values at the press; out is <<>> before the press  *)
(* and <<r>> after it, r the record of what the calculation computed.      *)

VARIABLES inp, out

vars == <<inp, out>>

Pressed == out # <<>>

----------------------------------------------------------------------------
(* Retirement page: `if calculate:` of pages/retirement.py.                *)

\* the default 55 of the widget "Planned retirement age"
DefaultRetirementAge == 55

\* current ages the page opens with: the widget "Planned retirement age" has
\* min_value = current_age + 1 and the default above, and a default below the
\* minimum stops the script there
CurrentAges == {54}

\* retirement ages on both sides of the life expectancy of 90
RetirementAges == {60, 89, 90, 92}

MonthlyExpenses == {40000, 100000}

RetirementStyles == {"Fixed", "Inflation"}

MonthlyInvestments == {50000, 200000}

Savings == {0, 3000000}

UserRisks == {2, 4}

\* the widget values the script reaches `if calculate:` with: current_age at
\* least 0 and current_age + 1 at most the default retirement age, the
\* retirement age at least current_age + 1
RetirementInputs ==
    {w \in [current_age : CurrentAges, retirement_age : RetirementAges,
            monthly_expense : MonthlyExpenses, retirement_style : RetirementStyles,
            current_monthly_investment : MonthlyInvestments, current_savings : Savings,
            user_risk : UserRisks] :
        /\ w.current_age >= 0
        /\ w.current_age + 1 <= DefaultRetirementAge
        /\ w.retirement_age >= w.current_age + 1}

Init == inp \in RetirementInputs /\ out = <<>>

\* the button "Calculate my retirement plan": the calculation block, the
\* catch-up path and the allocation, each value computed once, in the order of
\* the script
Calculate ==
    /\ out = <<>>
    /\ \E years_to_ret \in {inp.retirement_age - inp.current_age} :
       \E retirement_years \in {90 - inp.retirement_age} :
       \E required \in {IF inp.retirement_style = "Fixed"
                        THEN required_corpus_fd(inp.monthly_expense, years_to_ret,
                                                retirement_years)
                        ELSE required_corpus_inflation(inp.monthly_expense, years_to_ret,
                                                       retirement_years)} :
       \E progress \in {FMin(FDiv(FromInt(inp.current_savings), required), One)} :
       \E r_user \in {portfolio_return(inp.user_risk)} :
       \E required_sip \in {required_monthly_sip(required, inp.current_savings,
                                                 years_to_ret, r_user)} :
       \E is_behind \in {inp.current_monthly_investment < required_sip} :
       \E min_start_sip \in {min_start_sip_for_overshoot(required_sip, years_to_ret,
                                                         MAX_SIP_GROWTH)} :
       \E can_recover \in {inp.current_monthly_investment >= min_start_sip} :
       \E system_risk \in {system_risk_level(inp.current_age, inp.retirement_age,
                                             is_behind)} :
       \E final_risk \in {blended_risk(inp.user_risk, system_risk)} :
       \E cap \in {FMul(CATCHUP_FACTOR, FromInt(required_sip))} :
          out' = <<[years_to_ret |-> years_to_ret,
                    retirement_years |-> retirement_years,
                    required |-> required,
                    progress |-> progress,
                    required_sip |-> required_sip,
                    is_behind |-> is_behind,
                    min_start_sip |-> min_start_sip,
                    can_recover |-> can_recover,
                    system_risk |-> system_risk,
                    final_risk |-> final_risk,
                    catchup |-> CatchupPath(FromInt(inp.current_monthly_investment), cap,
                                            years_to_ret),
                    asset_class |-> Assets,
                    monthly_amount |-> MonthlyAmounts(required_sip, final_risk)]>>
    /\ UNCHANGED inp

Next == Calculate

Spec == Init /\ [][Next]_vars

\* C4: with retirement_age >= 90 the calculation yields a required corpus of
\* exactly 0 (the code has no error outcome to give instead); no positive
\* corpus goes on into the SIP and progress computations.
NoCorpusPastLifeExpectancy ==
    Pressed /\ inp.retirement_age >= 90 => IsFZero(out[1].required)

\* retirement at 90 or later: the search's last upper end 1e11 / 2^100 comes
\* back as the corpus, and any savings at all fill the progress bar
TinyCorpusPastLifeExpectancy ==
    /\ Pressed
    /\ inp.retirement_age >= 90
    /\ inp.current_savings > 0
    /\ out[1].required = [m |-> CorpusHi.m, e |-> CorpusHi.e - CorpusIters]
    /\ out[1].required_sip = 0
    /\ out[1].progress = One

----------------------------------------------------------------------------
(* The two corpus engines on their own.                                    *)

CorpusExpenses == {0, 40000, 100000, 2000000000}

MaxYearsToRet == 3

MaxRetYears == 5

CorpusInputs ==
    [monthly_expense_today : CorpusExpenses, years_to_ret : 0..MaxYearsToRet,
     retirement_years : 0..MaxRetYears]

InitCorpus == inp \in CorpusInputs /\ out = <<>>

\* both engines applied to the same inputs
SizeCorpus ==
    /\ out = <<>>
    /\ out' = <<[fd |-> required_corpus_fd(inp.monthly_expense_today, inp.years_to_ret,
                                           inp.retirement_years),
                 inflation |-> required_corpus_inflation(inp.monthly_expense_today,
                                                         inp.years_to_ret,
                                                         inp.retirement_years)]>>
    /\ UNCHANGED inp

NextCorpus == SizeCorpus

SpecCorpus == InitCorpus /\ [][NextCorpus]_vars

\* the precision (hi - lo) / 2^100 of the corpus search
CorpusPrecision == [m |-> CorpusHi.m, e |-> CorpusHi.e - CorpusIters]

\* a candidate below the corpus C by more than the solver precision and by more
\* than the spacing of the floats at C, or <<>> where there is none
CandidateBelow(C) ==
    LET ulps == [m |-> One.m, e |-> C.e + 2]
        gap == IF FLess(ulps, FAdd(CorpusPrecision, CorpusPrecision))
               THEN FAdd(CorpusPrecision, CorpusPrecision) ELSE ulps
    IN IF FLess(C, gap) THEN <<>> ELSE <<FSub(C, gap)>>

\* the returned corpus survives the retirement years
CorpusSurvives ==
    LET a == AnnualAtRet(inp.monthly_expense_today, inp.years_to_ret)
    IN /\ SurvivesFd(out[1].fd, a, inp.retirement_years)
       /\ SurvivesInfl(out[1].inflation, a, inp.retirement_years)

\* a candidate below the returned corpus does not
CorpusMinimal ==
    LET a == AnnualAtRet(inp.monthly_expense_today, inp.years_to_ret)
        cfd == CandidateBelow(out[1].fd)
        cin == CandidateBelow(out[1].inflation)
    IN /\ cfd # <<>> => ~SurvivesFd(cfd[1], a, inp.retirement_years)
       /\ cin # <<>> => ~SurvivesInfl(cin[1], a, inp.retirement_years)

\* C1: for retirement_years >= 1 the corpus each engine returns is the minimal
\* surviving one: simulated over the retirement years it never goes below
\* zero, and a candidate smaller by more than the solver precision does.
CorpusIsMinimalSurviving ==
    Pressed /\ inp.retirement_years >= 1 => CorpusSurvives /\ CorpusMinimal

\* the search interval exhausted: the upper end 1e11 comes back, and it does
\* not survive
CorpusSaturated ==
    /\ Pressed
    /\ inp.retirement_years >= 1
    /\ out[1].fd = CorpusHi
    /\ ~SurvivesFd(out[1].fd, AnnualAtRet(inp.monthly_expense_today, inp.years_to_ret),
                   inp.retirement_years)

\* C6: on the same inputs the inflation-protected corpus is never lower than
\* the fixed-withdrawal corpus.
InflationCorpusNotLower ==
    Pressed => FLeq(out[1].fd, out[1].inflation)

\* one retirement year, where the two engines withdraw the same amount once,
\* and the inflation-protected corpus comes out lower
InflationCorpusLower ==
    /\ Pressed
    /\ inp.retirement_years = 1
    /\ FLess(out[1].inflation, out[1].fd)

----------------------------------------------------------------------------
(* required_monthly_sip on its own.  A run applies it, the savings are     *)
(* raised, and it is applied again: out keeps both results, each with the  *)
(* savings it was computed for.                                            *)

\* required corpora, in whole rupees
SipCorpora == {0, 1000000, 3000000, 2000000000}

SipSavings == {0, 500000, 1000000, 4000000}

MaxSipYears == 3

SipRisks == {1, 5}

SipInputs ==
    [required_corpus : SipCorpora, current_savings : SipSavings,
     years : 1..MaxSipYears, risk : SipRisks]

InitSip == inp \in SipInputs /\ out = <<>>

SizeSip ==
    /\ Len(out) < 2
    /\ \A i \in DOMAIN out : out[i].current_savings # inp.current_savings
    /\ out' = Append(out,
                     [current_savings |-> inp.current_savings,
                      required_sip |->
                          required_monthly_sip(FromInt(inp.required_corpus),
                                               inp.current_savings, inp.years,
                                               portfolio_return(inp.risk))])
    /\ UNCHANGED inp

SaveMore ==
    /\ Len(out) = 1
    /\ \E more \in SipSavings :
          /\ more > inp.current_savings
          /\ inp' = [inp EXCEPT !.current_savings = more]
    /\ UNCHANGED out

NextSip == SizeSip \/ SaveMore

SpecSip == InitSip /\ [][NextSip]_vars

\* the balance after inp.years annual steps from savings S at monthly contribution M
BalanceAfter(S, M) ==
    SipBalance(FromInt(S), inp.years, portfolio_return(inp.risk), FromInt(M))

\* C2: simulated forward with the returned contribution M, the balance ends
\* within one rounding unit of the target C, the unit being what one more
\* whole rupee a month adds to the final balance: one rupee more reaches C (no
\* gross undershoot), and the balance is not above C by more than the unit (no
\* gross overshoot).
SipEndsAtTarget ==
    \A i \in DOMAIN out :
        LET S == out[i].current_savings
            M == out[i].required_sip
            C == FromInt(inp.required_corpus)
            unit == FSub(BalanceAfter(S, M + 1), BalanceAfter(S, M))
        IN /\ FLeq(C, BalanceAfter(S, M + 1))
           /\ FLeq(BalanceAfter(S, M), FAdd(C, unit))

\* the upper end of the search comes back and falls short of the target
SipSaturated ==
    \E i \in DOMAIN out :
        /\ out[i].required_sip = SipHi
        /\ FLess(BalanceAfter(out[i].current_savings, SipHi + 1),
                 FromInt(inp.required_corpus))

\* C5: for the same corpus, years and return, more savings never ask for a
\* higher monthly contribution, and the contribution is never negative.
SipNonIncreasingInSavings ==
    /\ \A i \in DOMAIN out : out[i].required_sip >= 0
    /\ \A i, j \in DOMAIN out :
          out[i].current_savings <= out[j].current_savings
              => out[j].required_sip <= out[i].required_sip

\* two results, the second for more savings and a strictly lower contribution
SipLowerWithMoreSavings ==
    /\ Len(out) = 2
    /\ out[1].current_savings < out[2].current_savings
    /\ out[2].required_sip < out[1].required_sip
    /\ out[2].required_sip > 0

----------------------------------------------------------------------------
(* min_start_sip_for_overshoot on its own, at stepup = MAX_SIP_GROWTH.     *)

MaxSmallRequiredSip == 40

OvershootRequiredSips == 1..MaxSmallRequiredSip \cup {1000, 67806, SipHi}

MaxOvershootYears == 3

OvershootInputs == [required_sip : OvershootRequiredSips, years : 1..MaxOvershootYears]

InitOvershoot == inp \in OvershootInputs /\ out = <<>>

SizeOvershoot ==
    /\ out = <<>>
    /\ out' = <<[min_start_sip |->
                    min_start_sip_for_overshoot(inp.required_sip, inp.years,
                                                MAX_SIP_GROWTH)]>>
    /\ UNCHANGED inp

NextOvershoot == SizeOvershoot

SpecOvershoot == InitOvershoot /\ [][NextOvershoot]_vars

\* C3: the returned start s is the minimal one that reaches the ceiling:
\* stepped up once a year for `years` years under the cap 1.10 * required_sip
\* it ends at the cap, and no smaller start does.
MinStartReachesCeiling ==
    Pressed =>
        LET s == out[1].min_start_sip
        IN /\ ReachesCeiling(FromInt(s), inp.required_sip, inp.years, MAX_SIP_GROWTH)
           /\ s > 0 => ~ReachesCeiling(FromInt(s - 1), inp.required_sip, inp.years,
                                       MAX_SIP_GROWTH)

\* the returned start falls short of the ceiling, and the next rupee reaches it
MinStartFallsShort ==
    /\ Pressed
    /\ inp.required_sip = 1000
    /\ inp.years = 1
    /\ ~ReachesCeiling(FromInt(out[1].min_start_sip), inp.required_sip, inp.years,
                       MAX_SIP_GROWTH)
    /\ ReachesCeiling(FromInt(out[1].min_start_sip + 1), inp.required_sip, inp.years,
                      MAX_SIP_GROWTH)

----------------------------------------------------------------------------
(* The risk engines on their own: is_behind is either way.                 *)

RiskCurrentAges == {25, 40}

\* horizons on both sides of the edges 15 and 25
RiskHorizons == {1, 15, 16, 25, 26, 30}

RiskInputs ==
    [current_age : RiskCurrentAges, years : RiskHorizons, user_risk : 1..5,
     is_behind : BOOLEAN]

InitRisk == inp \in RiskInputs /\ out = <<>>

\* system_risk and final_risk as the calculation block derives them
AssessRisk ==
    /\ out = <<>>
    /\ LET system_risk == system_risk_level(inp.current_age, inp.current_age + inp.years,
                                            inp.is_behind)
       IN out' = <<[system_risk |-> system_risk,
                    final_risk |-> blended_risk(inp.user_risk, system_risk)]>>
    /\ UNCHANGED inp

NextRisk == AssessRisk

SpecRisk == InitRisk /\ [][NextRisk]_vars

\* k / 10 rounded to the nearest integer, a tie going to the even one
RoundTenths(k) ==
    LET q == k \div 10
        r == k % 10
    IN IF r < 5 THEN q
       ELSE IF r > 5 THEN q + 1
       ELSE IF q % 2 = 0 THEN q ELSE q + 1

\* C7: system_risk is 4 for a horizon above 25 years, 3 above 15, else 2,
\* raised by one (at most 5) when behind; the risk used for the allocation is
\* round(0.6 * user_risk + 0.4 * system_risk) clamped to 1..5; both are
\* integers in 1..5 and index a row of the allocation table.
RiskIsBlend ==
    Pressed =>
        LET base == IF inp.years > 25 THEN 4 ELSE IF inp.years > 15 THEN 3 ELSE 2
            raised == IF base + 1 > 5 THEN 5 ELSE base + 1
            system_risk == IF inp.is_behind THEN raised ELSE base
            nearest == RoundTenths(6 * inp.user_risk + 4 * system_risk)
            clamped == IF nearest < 1 THEN 1 ELSE IF nearest > 5 THEN 5 ELSE nearest
        IN /\ out[1].system_risk = system_risk
           /\ out[1].final_risk = clamped
           /\ out[1].system_risk \in 1..5
           /\ out[1].final_risk \in 1..5
           /\ out[1].final_risk \in DOMAIN RISK_ALLOC

\* a cautious user behind on a long horizon: system 5, user 1, blend 3
RiskPulledUp ==
    /\ Pressed
    /\ inp.user_risk = 1
    /\ inp.years > 25
    /\ inp.is_behind
    /\ out[1].system_risk = 5
    /\ out[1].final_risk = 3

----------------------------------------------------------------------------
(* The allocation block on its own.                                        *)

MaxSmallSip == 60

AllocSips == 0..MaxSmallSip \cup {1000, 67806, SipHi}

AllocInputs == [required_sip : AllocSips, final_risk : DOMAIN RISK_ALLOC]

InitAlloc == inp \in AllocInputs /\ out = <<>>

\* alloc = RISK_ALLOC[final_risk] and the two columns of alloc_df
Allocate ==
    /\ out = <<>>
    /\ out' = <<[asset_class |-> Assets,
                 fraction |-> [i \in 1..Len(Assets) |->
                                   RISK_ALLOC[inp.final_risk][Assets[i]]],
                 monthly_amount |-> MonthlyAmounts(inp.required_sip, inp.final_risk)]>>
    /\ UNCHANGED inp

NextAlloc == Allocate

SpecAlloc == InitAlloc /\ [][NextAlloc]_vars

\* Python's sum of four floats: from 0, left to right
FSum4(v) == FAdd(FAdd(FAdd(FAdd(FZero, v[1]), v[2]), v[3]), v[4])

\* abs(x - y)
FDist(x, y) == IF FLess(x, y) THEN FSub(y, x) ELSE FSub(x, y)

\* 1e-9 = 0x1.12e0be826d695p-30
SumTolerance == Lit(5781, 8347, 8382, 1099, -82)

\* the row has the four asset classes as keys and its fractions sum to 1
RowIsWhole ==
    /\ DOMAIN RISK_ALLOC[inp.final_risk] = {"Equity", "Debt", "Gold", "Savings"}
    /\ out[1].asset_class = <<"Equity", "Debt", "Gold", "Savings">>
    /\ FSum4(out[1].fraction) = One

AmountsNonNegative == \A i \in 1..4 : FLeq(FZero, out[1].monthly_amount[i])

\* C8 as amended: the row has exactly the keys Equity, Debt, Gold, Savings and
\* fractions summing to 1; the monthly amounts are non-negative and sum to
\* required_monthly_sip up to the rounding of the float products and sums,
\* within 1e-9 of it.
AmountsSumWithinRounding ==
    Pressed =>
        /\ RowIsWhole
        /\ AmountsNonNegative
        /\ FLeq(FDist(FSum4(out[1].monthly_amount), FromInt(inp.required_sip)),
                SumTolerance)

\* C8 as stated: the monthly amounts sum to required_monthly_sip.
AmountsSumExactly ==
    Pressed =>
        /\ RowIsWhole
        /\ AmountsNonNegative
        /\ FSum4(out[1].monthly_amount) = FromInt(inp.required_sip)

\* three rupees a month at risk level 1: the amounts sum to a float just off 3
AmountsSumOff ==
    /\ Pressed
    /\ inp.required_sip = 3
    /\ inp.final_risk = 1
    /\ FSum4(out[1].monthly_amount) # FromInt(3)
    /\ FLeq(FDist(FSum4(out[1].monthly_amount), FromInt(3)), SumTolerance)

----------------------------------------------------------------------------
(* Insurance page: `if calculate:` of pages/insurance.py.                  *)

\* ages around the two band edges (the widget allows 18..80)
Ages == {25, 29, 30, 45, 46}

Incomes == {0, 500000, 1000000}

\* the widget allows 0..10 dependents
MaxDependents == 10

ExistingLifeCovers == {0, 6000000, 12000000, 15000000}

ExistingHealthCovers == {0, 1500000}

CityTiers == {"Tier_1", "Tier_2", "Tier_3"}

LifestyleRisks == {"smoking", "sedentary", "high_stress"}

\* what the multiselect returns: the options chosen, each once, in the order
\* they were chosen
Selections ==
    {l \in UNION {[1..n -> LifestyleRisks] : n \in 0..Cardinality(LifestyleRisks)} :
        \A i, j \in DOMAIN l : i # j => l[i] # l[j]}

InsuranceInputs ==
    [age : Ages, annual_income : Incomes, dependents : 0..MaxDependents,
     existing_life_cover : ExistingLifeCovers,
     existing_health_cover : ExistingHealthCovers,
     city_tier : CityTiers, lifestyle_risks : {Some(l) : l \in Selections}]

InitInsurance == inp \in InsuranceInputs /\ out = <<>>

\* the button "Check My Insurance": the gap, then the two premium estimates
CheckInsurance ==
    /\ out = <<>>
    /\ LET result == calculate_insurance_gap(inp)
       IN out' = <<[result |-> result,
                    life_premium |-> estimate_life_premium(result.life_gap, inp.age),
                    health_premium |-> estimate_health_premium(result.health_gap, inp.age)]>>
    /\ UNCHANGED inp

NextInsurance == CheckInsurance

SpecInsurance == InitInsurance /\ [][NextInsurance]_vars

\* C9: each gap is max(0, required - existing), so never negative, and a cover
\* is Adequate exactly when its gap is zero, that is when the existing cover
\* is at least the required one, and Underinsured otherwise.
GapIsShortfall ==
    Pressed =>
        LET r == out[1].result
            GapOk(gap, status, required, existing) ==
                /\ gap >= 0
                /\ existing >= required => gap = 0 /\ status = "Adequate"
                /\ existing < required => gap = required - existing /\ status = "Underinsured"
                /\ status = "Adequate" <=> gap = 0
        IN /\ GapOk(r.life_gap, r.life_status, r.required_life, inp.existing_life_cover)
           /\ GapOk(r.health_gap, r.health_status, r.required_health,
                    inp.existing_health_cover)

\* a press with one cover short of the requirement and the other beyond it
GapBothWays ==
    /\ Pressed
    /\ inp.existing_life_cover > out[1].result.required_life
    /\ out[1].result.required_life > 0
    /\ inp.existing_health_cover < out[1].result.required_health

\* C10: the required life cover is exactly annual_income times 10 for no
\* dependents, 12 for one or two, 15 for three or more, for 0..10 dependents.
LifeCoverMultiplier ==
    Pressed =>
        LET d == inp.dependents
            cover == out[1].result.required_life
        IN /\ d = 0 => cover = inp.annual_income * 10
           /\ d \in {1, 2} => cover = inp.annual_income * 12
           /\ d >= 3 => cover = inp.annual_income * 15

\* a press at the tier edge: two dependents, with an income that tells 12 from 15
LifeCoverAtTierEdge ==
    /\ Pressed
    /\ inp.dependents = 2
    /\ inp.annual_income = 1000000
    /\ out[1].result.required_life = 12000000

----------------------------------------------------------------------------
(* calculate_required_health_cover over the inputs its signature admits.   *)

HealthAges == {18, 25, 29, 30, 31, 45, 46, 80}

HealthDependents == 0..3

\* lists as a caller may pass them: an entry repeated, one the function does
\* not know
CallerLists ==
    Selections \cup {<<"smoking", "smoking">>, <<"alcohol">>,
                     <<"alcohol", "high_stress">>}

HealthInputs ==
    [age : HealthAges, annual_income : {0}, dependents : HealthDependents,
     existing_life_cover : {0}, existing_health_cover : {0},
     city_tier : CityTiers,
     lifestyle_risks : {None} \cup {Some(l) : l \in CallerLists}]

InitHealth == inp \in HealthInputs /\ out = <<>>

\* a call of calculate_required_health_cover
RequireHealthCover ==
    /\ out = <<>>
    /\ out' = <<calculate_required_health_cover(inp)>>
    /\ UNCHANGED inp

NextHealth == RequireHealthCover

SpecHealth == InitHealth /\ [][NextHealth]_vars

\* whether the risk r is present in the lifestyle list passed, if one was
Present(r) ==
    /\ inp.lifestyle_risks # None
    /\ \E i \in DOMAIN inp.lifestyle_risks[1] : inp.lifestyle_risks[1][i] = r

\* C11: the required health cover is the sum of independent terms: the base
\* of the age band (under 30: 1,000,000; 30 to 45: 1,500,000; over 45:
\* 2,500,000), 500,000 for two or more dependents, 500,000 for Tier_1 or
\* 250,000 for Tier_2, and 500,000 for smoking, 250,000 for sedentary, 250,000
\* for high_stress when present; None or an empty list adds nothing, so age
\* 25 without dependents in Tier_3 gives exactly 1,000,000.
HealthCoverIsSumOfTerms ==
    Pressed =>
        /\ out[1] = (CASE inp.age < 30 -> 1000000
                       [] inp.age >= 30 /\ inp.age <= 45 -> 1500000
                       [] inp.age > 45 -> 2500000)
                    + (IF inp.dependents >= 2 THEN 500000 ELSE 0)
                    + (CASE inp.city_tier = "Tier_1" -> 500000
                         [] inp.city_tier = "Tier_2" -> 250000
                         [] inp.city_tier = "Tier_3" -> 0)
                    + (IF Present("smoking") THEN 500000 ELSE 0)
                    + (IF Present("sedentary") THEN 250000 ELSE 0)
                    + (IF Present("high_stress") THEN 250000 ELSE 0)
        /\ (/\ inp.age = 25 /\ inp.dependents = 0 /\ inp.city_tier = "Tier_3"
            /\ inp.lifestyle_risks \in {None, Some(<<>>)}) => out[1] = 1000000

\* a call without a lifestyle list, at age 25 without dependents in Tier_3
HealthCoverWithoutList ==
    /\ Pressed
    /\ inp.lifestyle_risks = None
    /\ inp.age = 25 /\ inp.dependents = 0 /\ inp.city_tier = "Tier_3"
    /\ out[1] = 1000000

----------------------------------------------------------------------------
(* The catch-up path over the investments and required SIPs it can meet.   *)

\* current monthly investments from nothing to beyond any cap
CatchupInvestments == {0, 1, 5, 1000, 50000, 200000, 330000, 400000}

\* required SIPs as required_monthly_sip returns them, 0 to SipHi
CatchupRequiredSips == {0, 1, 7, 1000, 67806, SipHi}

MaxCatchupYears == 6

CatchupInputs ==
    [current_monthly_investment : CatchupInvestments,
     required_sip : CatchupRequiredSips,
     years_to_ret : 1..MaxCatchupYears]

InitCatchup == inp \in CatchupInputs /\ out = <<>>

\* the section "SIP PATH (OVERSHOOT)": the cap, then the path year by year
BuildCatchup ==
    /\ out = <<>>
    /\ \E cap \in {FMul(CATCHUP_FACTOR, FromInt(inp.required_sip))} :
          out' = <<[years |-> [i \in 1..inp.years_to_ret |-> i],
                    cap |-> cap,
                    catchup |-> CatchupPath(FromInt(inp.current_monthly_investment),
                                            cap, inp.years_to_ret)]>>
    /\ UNCHANGED inp

NextCatchup == BuildCatchup

SpecCatchup == InitCatchup /\ [][NextCatchup]_vars

\* 1.10 * required_sip
CapOfClaim == FMul(CATCHUP_FACTOR, FromInt(inp.required_sip))

\* the path has one entry per year and starts at the current investment
PathStartsAtInvestment ==
    /\ Len(out[1].catchup) = inp.years_to_ret
    /\ out[1].catchup[1] = inp.current_monthly_investment

\* the path never falls from one year to the next and stays within the cap
PathRisesWithinCap ==
    /\ \A i \in 1..(Len(out[1].catchup) - 1) : out[1].catchup[i] <= out[1].catchup[i + 1]
    /\ \A i \in 1..Len(out[1].catchup) : FLeq(FromInt(out[1].catchup[i]), CapOfClaim)

\* C12 as stated: for every current_monthly_investment >= 0, required_sip >= 0
\* and years_to_ret >= 1 the catch-up path has years_to_ret entries, starts at
\* the current monthly investment, never decreases and has no entry above
\* 1.10 * required_sip.
CatchupPathWithinCap ==
    Pressed => PathStartsAtInvestment /\ PathRisesWithinCap

\* C12: for every current_monthly_investment >= 0, required_sip >= 0 and
\* years_to_ret >= 1 the catch-up path has years_to_ret entries and starts at
\* the current monthly investment; when that investment is at most the cap
\* 1.10 * required_sip, the path never decreases and has no entry above the cap.
CatchupPathWithinCapFromBelow ==
    Pressed =>
        /\ PathStartsAtInvestment
        /\ FLeq(FromInt(inp.current_monthly_investment), CapOfClaim) => PathRisesWithinCap

\* a path that starts below the required SIP, rises and ends on the cap
CatchupPathReachesCap ==
    /\ Pressed
    /\ inp.current_monthly_investment < inp.required_sip
    /\ Len(out[1].catchup) >= 3
    /\ out[1].catchup[1] < out[1].catchup[2]
    /\ out[1].catchup[Len(out[1].catchup)] = FTrunc(CapOfClaim)

====
